---- MODULE Spec2Model ----
(***************************************************************************)
(* Order placement and order status workflow of the coffee ordering        *)
(* backend (OrderController, order routes, auth middleware, Prisma schema).*)
(*                                                                         *)
(* Money is stored as Decimal(8,2) and is modelled in integer cents.       *)
(* createOrder does its arithmetic on JavaScript numbers (IEEE-754         *)
(* binary64); those are modelled exactly, as sign + magnitude where the    *)
(* magnitude is a natural number of units of 2^-Scale written in base 2^15.*)
(***************************************************************************)
EXTENDS Integers, Sequences, FiniteSets, TLC

(***************************************************************************)
(* Natural numbers as limb sequences: base 2^15 digits, least significant  *)
(* first, no leading zero digit                                            *)
(***************************************************************************)
Abs(n) == IF n < 0 THEN -n ELSE n

LimbBits == 15

Base == 32768

RECURSIVE Pow2(_)
Pow2(k) == IF k = 0 THEN 1 ELSE 2 * Pow2(k - 1)

\* number of binary digits of n
RECURSIVE BitLength(_)
BitLength(n) == IF n = 0 THEN 0 ELSE 1 + BitLength(n \div 2)

Limb(a, i) == IF i >= 1 /\ i <= Len(a) THEN a[i] ELSE 0

RECURSIVE Norm(_)
Norm(a) ==
    IF a = <<>> THEN <<>>
    ELSE IF a[Len(a)] = 0 THEN Norm(SubSeq(a, 1, Len(a) - 1))
    ELSE a

RECURSIVE NatToLimbs(_)
NatToLimbs(n) == IF n = 0 THEN <<>> ELSE <<n % Base>> \o NatToLimbs(n \div Base)

RECURSIVE LimbsToNat(_)
LimbsToNat(a) == IF a = <<>> THEN 0 ELSE a[1] + Base * LimbsToNat(Tail(a))

RECURSIVE AddFrom(_, _, _, _)
AddFrom(a, b, i, c) ==
    IF i > Len(a) /\ i > Len(b) THEN NatToLimbs(c)
    ELSE LET v == Limb(a, i) + Limb(b, i) + c
         IN  <<v % Base>> \o AddFrom(a, b, i + 1, v \div Base)

AddLimbs(a, b) == AddFrom(a, b, 1, 0)

\* a - b for a >= b
RECURSIVE SubFrom(_, _, _, _)
SubFrom(a, b, i, w) ==
    IF i > Len(a) THEN <<>>
    ELSE LET v == a[i] - Limb(b, i) - w
         IN  <<(v + Base) % Base>> \o SubFrom(a, b, i + 1, IF v < 0 THEN 1 ELSE 0)

SubLimbs(a, b) == Norm(SubFrom(a, b, 1, 0))

RECURSIVE LessFrom(_, _, _)
LessFrom(a, b, i) ==
    IF i = 0 THEN FALSE
    ELSE IF a[i] # b[i] THEN a[i] < b[i]
    ELSE LessFrom(a, b, i - 1)

LessLimbs(a, b) ==
    IF Len(a) # Len(b) THEN Len(a) < Len(b) ELSE LessFrom(a, b, Len(a))

\* a * k for a natural k < 2^15
RECURSIVE MulFrom(_, _, _, _)
MulFrom(a, k, i, c) ==
    IF i > Len(a) THEN NatToLimbs(c)
    ELSE LET v == a[i] * k + c
         IN  <<v % Base>> \o MulFrom(a, k, i + 1, v \div Base)

MulSmall(a, k) == IF k = 0 THEN <<>> ELSE MulFrom(a, k, 1, 0)

\* 2^k as a limb sequence
PowerOfTwo(k) == [i \in 1..(k \div LimbBits) |-> 0] \o <<Pow2(k % LimbBits)>>

\* number of binary digits of a
Bits(a) == IF a = <<>> THEN 0 ELSE LimbBits * (Len(a) - 1) + BitLength(a[Len(a)])

\* binary digit k (counted from 1) of a
BitAt(a, k) == (Limb(a, (k - 1) \div LimbBits + 1) \div Pow2((k - 1) % LimbBits)) % 2

\* a with its k lowest binary digits cleared
ClearLow(a, k) ==
    [i \in 1..Len(a) |->
        IF i <= k \div LimbBits THEN 0
        ELSE IF i = k \div LimbBits + 1
             THEN a[i] - (a[i] % Pow2(k % LimbBits))
        ELSE a[i]]

\* some of the k lowest binary digits of a is set
AnyLow(a, k) ==
    \/ \E i \in 1..(k \div LimbBits) : Limb(a, i) # 0
    \/ (Limb(a, k \div LimbBits + 1) % Pow2(k % LimbBits)) # 0

(***************************************************************************)
(* JavaScript numbers (binary64, round to nearest, ties to even)           *)
(***************************************************************************)
Mantissa == 53

\* Every number createOrder can form from prices >= 0.01 and integer
\* quantities is a multiple of 2^-59; one more digit keeps the remainder of
\* the decimal-to-binary conversion below the last kept digit.
ScaleLimbs == 4

Scale == LimbBits * ScaleLimbs

\* a (plus a nonzero fraction when sticky) rounded to Mantissa binary digits
Round53(a, sticky) ==
    IF Bits(a) <= Mantissa THEN a
    ELSE LET k     == Bits(a) - Mantissa
             guard == BitAt(a, k) = 1
             rest  == sticky \/ AnyLow(a, k - 1)
             odd   == BitAt(a, k + 1) = 1
             kept  == ClearLow(a, k)
         IN  IF guard /\ (rest \/ odd) THEN AddLimbs(kept, PowerOfTwo(k)) ELSE kept

Num(neg, mag) == [neg |-> neg, mag |-> mag]

NumZero == Num(FALSE, <<>>)

NumOne == Num(FALSE, PowerOfTwo(Scale))

\* the first i base-2^15 digits of r/100, most significant last in acc
RECURSIVE FracLimbs(_, _, _)
FracLimbs(r, i, acc) ==
    IF i = 0 THEN <<acc, r>>
    ELSE FracLimbs((Base * r) % 100, i - 1, <<(Base * r) \div 100>> \o acc)

\* Number(decimal): the binary64 nearest to c/100
NumberOfCents(c) ==
    LET f == FracLimbs(c % 100, ScaleLimbs, <<>>)
        q == Norm(f[1] \o NatToLimbs(c \div 100))
    IN  Num(FALSE, Round53(q, f[2] # 0))

\* x * q for an integer q
NumTimes(x, q) ==
    LET m == Round53(MulSmall(x.mag, Abs(q)), FALSE)
    IN  Num((x.neg # (q < 0)) /\ m # <<>>, m)

\* x + y
NumPlus(x, y) ==
    IF x.neg = y.neg THEN Num(x.neg, Round53(AddLimbs(x.mag, y.mag), FALSE))
    ELSE IF x.mag = y.mag THEN NumZero
    ELSE IF LessLimbs(x.mag, y.mag)
         THEN Num(y.neg, Round53(SubLimbs(y.mag, x.mag), FALSE))
         ELSE Num(x.neg, Round53(SubLimbs(x.mag, y.mag), FALSE))

\* x < 2.0
NumLessThanTwo(x) == x.neg \/ Bits(x.mag) <= Scale + 1

\* variant: the column cuts the digits after the second decimal
DecimalOfNumberTruncating(x) ==
    LET h == MulSmall(x.mag, 100)
        n == LimbsToNat(SubSeq(h, ScaleLimbs + 1, Len(h)))
    IN  IF x.neg THEN -n ELSE n

\* Decimal(8,2) column: round to 2 decimals, half away from zero
DecimalOfNumber(x) ==
    LET h == AddLimbs(MulSmall(x.mag, 100), PowerOfTwo(Scale - 1))
        n == LimbsToNat(SubSeq(h, ScaleLimbs + 1, Len(h)))
    IN  IF x.neg THEN -n ELSE n

(***************************************************************************)
(* Bounds of the model                                                     *)
(***************************************************************************)
\* concurrent request handlers
MaxInFlight == 2

\* orders the store may hold
MaxOrders == 1

\* lines of one create-order request
MaxItems == 2

\* orders that requests in flight at the same time may create
MaxSubmissions == 2

(***************************************************************************)
(* Schema                                                                  *)
(***************************************************************************)
OrderStatus == {"PENDING", "PREPARING", "READY", "DELIVERED", "CANCELLED"}

\* user 1 is a client, user 2 is the administrator
Users == 1..2

Role(u) == IF u = 2 THEN "ADMIN" ELSE "CLIENT"

\* product ids a request may name; the last one is not in the catalog
ProductIds == 1..3

NoProduct == [exists |-> FALSE, price |-> 0, isAvailable |-> FALSE]

Product(price, isAvailable) ==
    [exists |-> TRUE, price |-> price, isAvailable |-> isAvailable]

\* catalogs the store may start with (prices in cents); id 3 is never sold
Catalog(row1, row2) ==
    [i \in ProductIds |-> IF i = 1 THEN row1 ELSE IF i = 2 THEN row2 ELSE NoProduct]

Catalogs ==
    { Catalog(Product(20, TRUE), Product(60, TRUE)),
      Catalog(Product(350, TRUE), Product(100, TRUE)),
      Catalog(Product(100, TRUE), Product(350, FALSE)) }

\* quantities a request line may carry (it may also carry none)
Quantities == {-1, 0, 1, 2, 3}

OrderItemInput ==
    [productId : ProductIds] \cup [productId : ProductIds, quantity : Quantities]

RECURSIVE SeqsUpTo(_, _)
SeqsUpTo(S, n) ==
    IF n = 0 THEN {<<>>}
    ELSE LET shorter == SeqsUpTo(S, n - 1)
         IN  shorter \cup {Append(q, x) : q \in {t \in shorter : Len(t) = n - 1}, x \in S}

ItemLists == SeqsUpTo(OrderItemInput, MaxItems)

PaymentMethod == {"YAPE", "PLIN", "TUNKI", "CASH"}

\* req.body of POST /api/orders with its delivery location and payment
\* method in order: the items are a list or absent
Bodies(lists) ==
    [items : lists, deliveryLocation : {"Aula 101"}, paymentMethod : {"CASH"}]
    \cup {[deliveryLocation |-> "Aula 101", paymentMethod |-> "CASH"]}

\* payment methods a request body may carry besides none: two of the enum
\* and one outside it
PaymentInputs == {"CASH", "YAPE", "BITCOIN"}

\* req.body of POST /api/orders of any shape: the delivery location and the
\* payment method may be absent, the payment method may be outside the enum
AnyBodies(lists) ==
    [items : lists]
    \cup [items : lists, deliveryLocation : {"Aula 101"}]
    \cup [items : lists, paymentMethod : PaymentInputs]
    \cup [items : lists, deliveryLocation : {"Aula 101"}, paymentMethod : PaymentInputs]

\* a field of req.body; undefined when the body does not carry it
Field(body, name) == IF name \in DOMAIN body THEN body[name] ELSE "undefined"

\* the create-order requests of the status workflow
WorkflowItemLists == {<<>>, <<[productId |-> 1]>>}

\* item lists of requests that are submitted twice
SubmitItemLists == {<<[productId |-> 1]>>, <<[productId |-> 2, quantity |-> 2]>>}

\* prices a product update may carry, in cents; updateProductValidation has
\* let them through (0.01 to 999.99, two decimals)
PriceInputs == {250}

\* req.body of PUT /api/products/:id: every field is optional
ProductBodies ==
    [price : PriceInputs] \cup [isAvailable : BOOLEAN]
    \cup [price : PriceInputs, isAvailable : BOOLEAN]

\* status values a request body may carry: the five statuses, one value
\* outside the enum and none at all
StatusInputs == OrderStatus \cup {"BOGUS", "undefined"}

OrderIdInputs == 1..(MaxOrders + 1)

Procs == 1..MaxInFlight

(***************************************************************************)
(* State                                                                   *)
(***************************************************************************)
VARIABLES
    products,       \* table products: id -> row
    orders,         \* table orders: sequence of rows, id = position
    orderItems,     \* table order_items
    notifications,  \* table notifications
    req             \* the request each handler is serving, with its locals

vars == <<products, orders, orderItems, notifications, req>>

db == <<products, orders, orderItems, notifications>>

NoOrder ==
    [userId |-> 0, status |-> "none", deliveryLocation |-> "", paymentMethod |-> "",
     subtotal |-> 0, deliveryFee |-> 0, total |-> 0, notes |-> ""]

NoResponse == [http |-> 0, code |-> "", data |-> NoOrder, list |-> <<>>]

Idle ==
    [op |-> "none", pc |-> "idle", userId |-> 0, id |-> 0, status |-> "",
     hasItems |-> FALSE, items |-> <<>>, deliveryLocation |-> "",
     paymentMethod |-> "", updateData |-> <<>>, lookups |-> 0, writes |-> 0,
     subtotal |-> NumZero, total |-> NumZero, orderItems |-> <<>>,
     order |-> NoOrder, newOrderId |-> 0, res |-> NoResponse]

Free(p) == req[p].pc = "idle"

\* res.status(http).json({code, data}); return
Respond(r, http, code, data) ==
    [r EXCEPT !.pc = "done",
              !.subtotal = NumZero, !.total = NumZero, !.orderItems = <<>>,
              !.order = NoOrder,
              !.res = [http |-> http, code |-> code, data |-> data, list |-> <<>>]]

\* res.json({success: true, data: list}); return
RespondList(r, list) ==
    [r EXCEPT !.pc = "done",
              !.res = [http |-> 200, code |-> "SUCCESS", data |-> NoOrder, list |-> list]]

Init ==
    /\ products \in Catalogs
    /\ orders = <<>>
    /\ orderItems = <<>>
    /\ notifications = <<>>
    /\ req = [p \in Procs |-> Idle]

(***************************************************************************)
(* Store operations                                                        *)
(***************************************************************************)
OrderExists(id) == id \in 1..Len(orders)

Notification(userId, title, message, orderId) ==
    [userId |-> userId, title |-> title, message |-> message,
     type |-> "ORDER", isRead |-> FALSE, orderId |-> orderId]

\* creations that were accepted and have not committed yet
PendingCreations ==
    Cardinality({p \in Procs : req[p].op = "createOrder" /\ req[p].pc \in {"lookup", "tx"}})

(***************************************************************************)
(* OrderController.createOrder                                             *)
(***************************************************************************)
DeliveryFee == NumOne

\* validationResult(req): the errors the route's validation chains found.
\* POST /api/orders is registered without validation chains.
validationResult(body) == {}

\* item.quantity || 1
QuantityOf(item) ==
    IF "quantity" \in DOMAIN item /\ item.quantity # 0 THEN item.quantity ELSE 1

\* variant: no items check; the loop over no lines leaves subtotal 0
CreateOrderWithoutItemsCheck(p, bodies) ==
    /\ Free(p)
    /\ \E userId \in Users, body \in bodies :
          LET hasItems == "items" \in DOMAIN body
              items    == IF hasItems THEN body.items ELSE <<>>
              r == [Idle EXCEPT !.op = "createOrder", !.userId = userId,
                                !.hasItems = hasItems, !.items = items,
                                !.deliveryLocation = Field(body, "deliveryLocation"),
                                !.paymentMethod = Field(body, "paymentMethod")]
          IN  /\ Len(items) = 0 \/ Len(orders) + PendingCreations < MaxOrders
              /\ req' = [req EXCEPT ![p] =
                            IF validationResult(body) # {}
                            THEN Respond(r, 400, "", NoOrder)
                            ELSE IF Len(items) = 0
                            THEN Respond(r, 400, "MINIMUM_ORDER_NOT_MET", NoOrder)
                            ELSE [r EXCEPT !.pc = "lookup"]]
    /\ UNCHANGED db

\* the request arrives: validation result, destructuring, the items check.
\* Only requests that carry lines can create an order, so only they count
\* against MaxOrders.
CreateOrderWithin(p, bodies, cap) ==
    /\ Free(p)
    /\ \E userId \in Users, body \in bodies :
          LET hasItems == "items" \in DOMAIN body
              items    == IF hasItems THEN body.items ELSE <<>>
              r == [Idle EXCEPT !.op = "createOrder", !.userId = userId,
                                !.hasItems = hasItems, !.items = items,
                                !.deliveryLocation = Field(body, "deliveryLocation"),
                                !.paymentMethod = Field(body, "paymentMethod")]
          IN  /\ Len(items) = 0 \/ Len(orders) + PendingCreations < cap
              /\ req' = [req EXCEPT ![p] =
                            IF validationResult(body) # {}
                            THEN Respond(r, 400, "", NoOrder)
                            ELSE IF ~hasItems \/ Len(items) = 0
                            THEN Respond(r, 400, "NO_ITEMS_IN_ORDER", NoOrder)
                            ELSE [r EXCEPT !.pc = "lookup"]]
    /\ UNCHANGED db

CreateOrder(p, bodies) == CreateOrderWithin(p, bodies, MaxOrders)

\* variant: a missing product is not checked for; reading a field of null
\* throws into the catch block
CreateOrderLookupWithoutExistenceCheck(p) ==
    /\ req[p].op = "createOrder"
    /\ req[p].pc = "lookup"
    /\ LET r       == [req[p] EXCEPT !.lookups = @ + 1]
           item    == r.items[r.lookups]
           product == products[item.productId]
           quantity     == QuantityOf(item)
           unitPrice    == NumberOfCents(product.price)
           itemSubtotal == NumTimes(unitPrice, quantity)
           subtotal     == NumPlus(r.subtotal, itemSubtotal)
           pushed  == Append(r.orderItems,
                             [productId |-> item.productId, quantity |-> quantity,
                              unitPrice |-> unitPrice, subtotal |-> itemSubtotal])
       IN  req' = [req EXCEPT ![p] =
                      IF ~product.exists
                      THEN Respond(r, 500, "ORDER_CREATE_ERROR", NoOrder)
                      ELSE IF ~product.isAvailable
                      THEN Respond(r, 400, "PRODUCT_NOT_AVAILABLE", NoOrder)
                      ELSE IF r.lookups < Len(r.items)
                      THEN [r EXCEPT !.subtotal = subtotal, !.orderItems = pushed]
                      ELSE IF NumLessThanTwo(subtotal)
                      THEN Respond(r, 400, "MINIMUM_ORDER_NOT_MET", NoOrder)
                      ELSE [r EXCEPT !.subtotal = subtotal, !.orderItems = pushed,
                                     !.total = NumPlus(subtotal, DeliveryFee),
                                     !.pc = "tx"]]
    /\ UNCHANGED db

\* variant: the availability flag is not checked
CreateOrderLookupWithoutAvailabilityCheck(p) ==
    /\ req[p].op = "createOrder"
    /\ req[p].pc = "lookup"
    /\ LET r       == [req[p] EXCEPT !.lookups = @ + 1]
           item    == r.items[r.lookups]
           product == products[item.productId]
           quantity     == QuantityOf(item)
           unitPrice    == NumberOfCents(product.price)
           itemSubtotal == NumTimes(unitPrice, quantity)
           subtotal     == NumPlus(r.subtotal, itemSubtotal)
           pushed  == Append(r.orderItems,
                             [productId |-> item.productId, quantity |-> quantity,
                              unitPrice |-> unitPrice, subtotal |-> itemSubtotal])
       IN  req' = [req EXCEPT ![p] =
                      IF ~product.exists
                      THEN Respond(r, 404, "PRODUCT_NOT_FOUND", NoOrder)
                      ELSE IF r.lookups < Len(r.items)
                      THEN [r EXCEPT !.subtotal = subtotal, !.orderItems = pushed]
                      ELSE IF NumLessThanTwo(subtotal)
                      THEN Respond(r, 400, "MINIMUM_ORDER_NOT_MET", NoOrder)
                      ELSE [r EXCEPT !.subtotal = subtotal, !.orderItems = pushed,
                                     !.total = NumPlus(subtotal, DeliveryFee),
                                     !.pc = "tx"]]
    /\ UNCHANGED db

\* variant: the minimum is checked on the running subtotal after every line
CreateOrderLookupMinimumPerLine(p) ==
    /\ req[p].op = "createOrder"
    /\ req[p].pc = "lookup"
    /\ LET r       == [req[p] EXCEPT !.lookups = @ + 1]
           item    == r.items[r.lookups]
           product == products[item.productId]
           quantity     == QuantityOf(item)
           unitPrice    == NumberOfCents(product.price)
           itemSubtotal == NumTimes(unitPrice, quantity)
           subtotal     == NumPlus(r.subtotal, itemSubtotal)
           pushed  == Append(r.orderItems,
                             [productId |-> item.productId, quantity |-> quantity,
                              unitPrice |-> unitPrice, subtotal |-> itemSubtotal])
       IN  req' = [req EXCEPT ![p] =
                      IF ~product.exists
                      THEN Respond(r, 404, "PRODUCT_NOT_FOUND", NoOrder)
                      ELSE IF ~product.isAvailable
                      THEN Respond(r, 400, "PRODUCT_NOT_AVAILABLE", NoOrder)
                      ELSE IF NumLessThanTwo(subtotal)
                      THEN Respond(r, 400, "MINIMUM_ORDER_NOT_MET", NoOrder)
                      ELSE IF r.lookups < Len(r.items)
                      THEN [r EXCEPT !.subtotal = subtotal, !.orderItems = pushed]
                      ELSE [r EXCEPT !.subtotal = subtotal, !.orderItems = pushed,
                                     !.total = NumPlus(subtotal, DeliveryFee),
                                     !.pc = "tx"]]
    /\ UNCHANGED db

\* one iteration of the loop over items; after the last one, the minimum
\* amount check and the totals
CreateOrderLookup(p) ==
    /\ req[p].op = "createOrder"
    /\ req[p].pc = "lookup"
    /\ LET r       == [req[p] EXCEPT !.lookups = @ + 1]
           item    == r.items[r.lookups]
           product == products[item.productId]
           quantity     == QuantityOf(item)
           unitPrice    == NumberOfCents(product.price)
           itemSubtotal == NumTimes(unitPrice, quantity)
           subtotal     == NumPlus(r.subtotal, itemSubtotal)
           pushed  == Append(r.orderItems,
                             [productId |-> item.productId, quantity |-> quantity,
                              unitPrice |-> unitPrice, subtotal |-> itemSubtotal])
       IN  req' = [req EXCEPT ![p] =
                      IF ~product.exists
                      THEN Respond(r, 404, "PRODUCT_NOT_FOUND", NoOrder)
                      ELSE IF ~product.isAvailable
                      THEN Respond(r, 400, "PRODUCT_NOT_AVAILABLE", NoOrder)
                      ELSE IF r.lookups < Len(r.items)
                      THEN [r EXCEPT !.subtotal = subtotal, !.orderItems = pushed]
                      ELSE IF NumLessThanTwo(subtotal)
                      THEN Respond(r, 400, "MINIMUM_ORDER_NOT_MET", NoOrder)
                      ELSE [r EXCEPT !.subtotal = subtotal, !.orderItems = pushed,
                                     !.total = NumPlus(subtotal, DeliveryFee),
                                     !.pc = "tx"]]
    /\ UNCHANGED db

\* variant: the three writes are not in a transaction; the order row written
\* before the failing write stays
CreateOrderTxWithoutRollback(p) ==
    /\ req[p].op = "createOrder"
    /\ req[p].pc = "tx"
    /\ LET r        == req[p]
           newId    == Len(orders) + 1
           newOrder == [userId |-> r.userId, status |-> "PENDING",
                        deliveryLocation |-> r.deliveryLocation,
                        paymentMethod |-> r.paymentMethod,
                        subtotal |-> DecimalOfNumber(r.subtotal),
                        deliveryFee |-> DecimalOfNumber(DeliveryFee),
                        total |-> DecimalOfNumber(r.total), notes |-> ""]
           rows     == [i \in 1..Len(r.orderItems) |->
                          [orderId |-> newId,
                           productId |-> r.orderItems[i].productId,
                           quantity |-> r.orderItems[i].quantity,
                           unitPrice |-> DecimalOfNumber(r.orderItems[i].unitPrice),
                           subtotal |-> DecimalOfNumber(r.orderItems[i].subtotal)]]
       IN  IF /\ r.deliveryLocation # "undefined"
              /\ r.paymentMethod \in PaymentMethod
              /\ \A i \in 1..Len(rows) : products[rows[i].productId].exists
           THEN /\ orders' = Append(orders, newOrder)
                /\ orderItems' = orderItems \o rows
                /\ notifications' = Append(notifications,
                      Notification(r.userId, "Pedido confirmado",
                         <<"Tu pedido #", newId, " ha sido confirmado y esta siendo procesado.">>,
                         newId))
                /\ req' = [req EXCEPT ![p] = [r EXCEPT !.pc = "fetch", !.writes = @ + 1,
                                                       !.newOrderId = newId]]
           ELSE /\ orders' = Append(orders, newOrder)
                /\ req' = [req EXCEPT ![p] = Respond(r, 500, "ORDER_CREATE_ERROR", NoOrder)]
                /\ UNCHANGED <<orderItems, notifications>>
    /\ UNCHANGED products

\* variant: the transaction reads the products again and refuses the order
\* when a price or an availability is no longer what the loop read
CreateOrderTxRevalidating(p) ==
    /\ req[p].op = "createOrder"
    /\ req[p].pc = "tx"
    /\ LET r        == req[p]
           newId    == Len(orders) + 1
           newOrder == [userId |-> r.userId, status |-> "PENDING",
                        deliveryLocation |-> r.deliveryLocation,
                        paymentMethod |-> r.paymentMethod,
                        subtotal |-> DecimalOfNumber(r.subtotal),
                        deliveryFee |-> DecimalOfNumber(DeliveryFee),
                        total |-> DecimalOfNumber(r.total), notes |-> ""]
           rows     == [i \in 1..Len(r.orderItems) |->
                          [orderId |-> newId,
                           productId |-> r.orderItems[i].productId,
                           quantity |-> r.orderItems[i].quantity,
                           unitPrice |-> DecimalOfNumber(r.orderItems[i].unitPrice),
                           subtotal |-> DecimalOfNumber(r.orderItems[i].subtotal)]]
       IN  IF /\ r.deliveryLocation # "undefined"
              /\ r.paymentMethod \in PaymentMethod
              /\ \A i \in 1..Len(rows) :
                    /\ products[rows[i].productId].exists
                    /\ products[rows[i].productId].isAvailable
                    /\ products[rows[i].productId].price = rows[i].unitPrice
           THEN /\ orders' = Append(orders, newOrder)
                /\ orderItems' = orderItems \o rows
                /\ notifications' = Append(notifications,
                      Notification(r.userId, "Pedido confirmado",
                         <<"Tu pedido #", newId, " ha sido confirmado y esta siendo procesado.">>,
                         newId))
                /\ req' = [req EXCEPT ![p] = [r EXCEPT !.pc = "fetch", !.writes = @ + 1,
                                                       !.newOrderId = newId]]
           ELSE /\ req' = [req EXCEPT ![p] = Respond(r, 500, "ORDER_CREATE_ERROR", NoOrder)]
                /\ UNCHANGED <<orders, orderItems, notifications>>
    /\ UNCHANGED products

\* variant: a user who has a PENDING order already is refused a second one
CreateOrderTxDeduplicating(p) ==
    /\ req[p].op = "createOrder"
    /\ req[p].pc = "tx"
    /\ LET r        == req[p]
           newId    == Len(orders) + 1
           newOrder == [userId |-> r.userId, status |-> "PENDING",
                        deliveryLocation |-> r.deliveryLocation,
                        paymentMethod |-> r.paymentMethod,
                        subtotal |-> DecimalOfNumber(r.subtotal),
                        deliveryFee |-> DecimalOfNumber(DeliveryFee),
                        total |-> DecimalOfNumber(r.total), notes |-> ""]
           rows     == [i \in 1..Len(r.orderItems) |->
                          [orderId |-> newId,
                           productId |-> r.orderItems[i].productId,
                           quantity |-> r.orderItems[i].quantity,
                           unitPrice |-> DecimalOfNumber(r.orderItems[i].unitPrice),
                           subtotal |-> DecimalOfNumber(r.orderItems[i].subtotal)]]
       IN  IF /\ r.deliveryLocation # "undefined"
              /\ r.paymentMethod \in PaymentMethod
              /\ \A i \in 1..Len(rows) : products[rows[i].productId].exists
              /\ \A id \in 1..Len(orders) :
                    orders[id].userId # r.userId \/ orders[id].status # "PENDING"
           THEN /\ orders' = Append(orders, newOrder)
                /\ orderItems' = orderItems \o rows
                /\ notifications' = Append(notifications,
                      Notification(r.userId, "Pedido confirmado",
                         <<"Tu pedido #", newId, " ha sido confirmado y esta siendo procesado.">>,
                         newId))
                /\ req' = [req EXCEPT ![p] = [r EXCEPT !.pc = "fetch", !.writes = @ + 1,
                                                       !.newOrderId = newId]]
           ELSE /\ req' = [req EXCEPT ![p] = Respond(r, 500, "ORDER_CREATE_ERROR", NoOrder)]
                /\ UNCHANGED <<orders, orderItems, notifications>>
    /\ UNCHANGED products

\* prisma.$transaction: order row, item rows, notification row.  An order
\* without delivery location or with a payment method outside the enum is
\* refused by tx.order.create; a line whose product row is gone violates the
\* foreign key in tx.orderItem.create; either way everything is rolled back.
CreateOrderTx(p) ==
    /\ req[p].op = "createOrder"
    /\ req[p].pc = "tx"
    /\ LET r        == req[p]
           newId    == Len(orders) + 1
           newOrder == [userId |-> r.userId, status |-> "PENDING",
                        deliveryLocation |-> r.deliveryLocation,
                        paymentMethod |-> r.paymentMethod,
                        subtotal |-> DecimalOfNumber(r.subtotal),
                        deliveryFee |-> DecimalOfNumber(DeliveryFee),
                        total |-> DecimalOfNumber(r.total), notes |-> ""]
           rows     == [i \in 1..Len(r.orderItems) |->
                          [orderId |-> newId,
                           productId |-> r.orderItems[i].productId,
                           quantity |-> r.orderItems[i].quantity,
                           unitPrice |-> DecimalOfNumber(r.orderItems[i].unitPrice),
                           subtotal |-> DecimalOfNumber(r.orderItems[i].subtotal)]]
       IN  IF /\ r.deliveryLocation # "undefined"
              /\ r.paymentMethod \in PaymentMethod
              /\ \A i \in 1..Len(rows) : products[rows[i].productId].exists
           THEN /\ orders' = Append(orders, newOrder)
                /\ orderItems' = orderItems \o rows
                /\ notifications' = Append(notifications,
                      Notification(r.userId, "Pedido confirmado",
                         <<"Tu pedido #", newId, " ha sido confirmado y esta siendo procesado.">>,
                         newId))
                /\ req' = [req EXCEPT ![p] = [r EXCEPT !.pc = "fetch", !.writes = @ + 1,
                                                       !.newOrderId = newId]]
           ELSE /\ req' = [req EXCEPT ![p] = Respond(r, 500, "ORDER_CREATE_ERROR", NoOrder)]
                /\ UNCHANGED <<orders, orderItems, notifications>>
    /\ UNCHANGED products

\* the order is read back and returned
CreateOrderFetch(p) ==
    /\ req[p].op = "createOrder"
    /\ req[p].pc = "fetch"
    /\ req' = [req EXCEPT ![p] = Respond(req[p], 201, "SUCCESS", orders[req[p].newOrderId])]
    /\ UNCHANGED db

(***************************************************************************)
(* OrderController.cancelOrder                                             *)
(***************************************************************************)
\* variant: the status is checked before the ownership
CancelOrderStatusFirst(p) ==
    /\ Free(p)
    /\ \E userId \in Users, id \in OrderIdInputs :
          LET r == [Idle EXCEPT !.op = "cancelOrder", !.userId = userId, !.id = id]
          IN  req' = [req EXCEPT ![p] =
                         IF ~OrderExists(id)
                         THEN Respond(r, 404, "ORDER_NOT_FOUND", NoOrder)
                         ELSE IF orders[id].status # "PENDING"
                         THEN Respond(r, 400, "ORDER_CANNOT_BE_CANCELLED", NoOrder)
                         ELSE IF orders[id].userId # userId
                         THEN Respond(r, 403, "ORDER_ACCESS_DENIED", NoOrder)
                         ELSE [r EXCEPT !.order = orders[id], !.pc = "tx"]]
    /\ UNCHANGED db

\* variant: the ownership check comes first and takes a missing order for
\* another user's order
CancelOrderOwnerCheckOnMissing(p) ==
    /\ Free(p)
    /\ \E userId \in Users, id \in OrderIdInputs :
          LET r == [Idle EXCEPT !.op = "cancelOrder", !.userId = userId, !.id = id]
          IN  req' = [req EXCEPT ![p] =
                         IF ~OrderExists(id) \/ orders[id].userId # userId
                         THEN Respond(r, 403, "ORDER_ACCESS_DENIED", NoOrder)
                         ELSE IF orders[id].status # "PENDING"
                         THEN Respond(r, 400, "ORDER_CANNOT_BE_CANCELLED", NoOrder)
                         ELSE [r EXCEPT !.order = orders[id], !.pc = "tx"]]
    /\ UNCHANGED db

\* variant: the refusal of a caller who is not the owner carries the order
CancelOrderDeniedWithOrder(p) ==
    /\ Free(p)
    /\ \E userId \in Users, id \in OrderIdInputs :
          LET r == [Idle EXCEPT !.op = "cancelOrder", !.userId = userId, !.id = id]
          IN  req' = [req EXCEPT ![p] =
                         IF ~OrderExists(id)
                         THEN Respond(r, 404, "ORDER_NOT_FOUND", NoOrder)
                         ELSE IF orders[id].userId # userId
                         THEN Respond(r, 403, "ORDER_ACCESS_DENIED", orders[id])
                         ELSE IF orders[id].status # "PENDING"
                         THEN Respond(r, 400, "ORDER_CANNOT_BE_CANCELLED", NoOrder)
                         ELSE [r EXCEPT !.order = orders[id], !.pc = "tx"]]
    /\ UNCHANGED db

\* the order is loaded; ownership and status are checked
CancelOrder(p) ==
    /\ Free(p)
    /\ \E userId \in Users, id \in OrderIdInputs :
          LET r == [Idle EXCEPT !.op = "cancelOrder", !.userId = userId, !.id = id]
          IN  req' = [req EXCEPT ![p] =
                         IF ~OrderExists(id)
                         THEN Respond(r, 404, "ORDER_NOT_FOUND", NoOrder)
                         ELSE IF orders[id].userId # userId
                         THEN Respond(r, 403, "ORDER_ACCESS_DENIED", NoOrder)
                         ELSE IF orders[id].status # "PENDING"
                         THEN Respond(r, 400, "ORDER_CANNOT_BE_CANCELLED", NoOrder)
                         ELSE [r EXCEPT !.order = orders[id], !.pc = "tx"]]
    /\ UNCHANGED db

\* variant: the cancellation sets the total of the order to zero
CancelOrderTxZeroingTotal(p) ==
    /\ req[p].op = "cancelOrder"
    /\ req[p].pc = "tx"
    /\ LET r       == req[p]
           updated == [orders[r.id] EXCEPT !.status = "CANCELLED", !.total = 0]
       IN  /\ orders' = [orders EXCEPT ![r.id] = updated]
           /\ notifications' = Append(notifications,
                 Notification(r.userId, "Pedido cancelado",
                    <<"Tu pedido #", r.id, " ha sido cancelado exitosamente.">>, r.id))
           /\ req' = [req EXCEPT ![p] =
                         Respond([r EXCEPT !.writes = @ + 1], 200, "SUCCESS", updated)]
    /\ UNCHANGED <<products, orderItems>>

\* variant: the cancellation writes the status and no notification
CancelOrderTxWithoutNotification(p) ==
    /\ req[p].op = "cancelOrder"
    /\ req[p].pc = "tx"
    /\ LET r       == req[p]
           updated == [orders[r.id] EXCEPT !.status = "CANCELLED"]
       IN  /\ orders' = [orders EXCEPT ![r.id] = updated]
           /\ req' = [req EXCEPT ![p] =
                         Respond([r EXCEPT !.writes = @ + 1], 200, "SUCCESS", updated)]
    /\ UNCHANGED <<products, orderItems, notifications>>

\* variant: the cancellation removes the lines of the order
CancelOrderTxDroppingLines(p) ==
    /\ req[p].op = "cancelOrder"
    /\ req[p].pc = "tx"
    /\ LET r       == req[p]
           updated == [orders[r.id] EXCEPT !.status = "CANCELLED"]
       IN  /\ orders' = [orders EXCEPT ![r.id] = updated]
           /\ orderItems' = SelectSeq(orderItems, LAMBDA row : row.orderId # r.id)
           /\ notifications' = Append(notifications,
                 Notification(r.userId, "Pedido cancelado",
                    <<"Tu pedido #", r.id, " ha sido cancelado exitosamente.">>, r.id))
           /\ req' = [req EXCEPT ![p] =
                         Respond([r EXCEPT !.writes = @ + 1], 200, "SUCCESS", updated)]
    /\ UNCHANGED products

\* prisma.$transaction: status write, notification row
CancelOrderTx(p) ==
    /\ req[p].op = "cancelOrder"
    /\ req[p].pc = "tx"
    /\ LET r       == req[p]
           updated == [orders[r.id] EXCEPT !.status = "CANCELLED"]
       IN  /\ orders' = [orders EXCEPT ![r.id] = updated]
           /\ notifications' = Append(notifications,
                 Notification(r.userId, "Pedido cancelado",
                    <<"Tu pedido #", r.id, " ha sido cancelado exitosamente.">>, r.id))
           /\ req' = [req EXCEPT ![p] =
                         Respond([r EXCEPT !.writes = @ + 1], 200, "SUCCESS", updated)]
    /\ UNCHANGED <<products, orderItems>>

(***************************************************************************)
(* requireAdmin, OrderController.updateOrderStatus                         *)
(***************************************************************************)
\* variant: a pending order may be delivered directly
validTransitionsWithShortcut ==
    [s \in OrderStatus |->
        CASE s = "PENDING"   -> {"PREPARING", "CANCELLED", "DELIVERED"}
          [] s = "PREPARING" -> {"READY", "CANCELLED"}
          [] s = "READY"     -> {"DELIVERED", "CANCELLED"}
          [] s = "DELIVERED" -> {}
          [] s = "CANCELLED" -> {}]

\* variant: a READY order may go back to PREPARING
validTransitionsWithStepBack ==
    [s \in OrderStatus |->
        CASE s = "PENDING"   -> {"PREPARING", "CANCELLED"}
          [] s = "PREPARING" -> {"READY", "CANCELLED"}
          [] s = "READY"     -> {"DELIVERED", "CANCELLED", "PREPARING"}
          [] s = "DELIVERED" -> {}
          [] s = "CANCELLED" -> {}]

validTransitions ==
    [s \in OrderStatus |->
        CASE s = "PENDING"   -> {"PREPARING", "CANCELLED"}
          [] s = "PREPARING" -> {"READY", "CANCELLED"}
          [] s = "READY"     -> {"DELIVERED", "CANCELLED"}
          [] s = "DELIVERED" -> {}
          [] s = "CANCELLED" -> {}]

statusMessages ==
    [s \in {"PREPARING", "READY", "DELIVERED", "CANCELLED"} |->
        CASE s = "PREPARING" -> "Tu pedido esta siendo preparado"
          [] s = "READY"     -> "Tu pedido esta listo para entrega"
          [] s = "DELIVERED" -> "Tu pedido ha sido entregado"
          [] s = "CANCELLED" -> "Tu pedido ha sido cancelado"]

\* variant: the status is written before the transition is validated
UpdateOrderStatusWriteFirst(p) ==
    /\ Free(p)
    /\ \E userId \in Users, id \in OrderIdInputs, status \in StatusInputs :
          LET r == [Idle EXCEPT !.op = "updateOrderStatus", !.userId = userId,
                                !.id = id, !.status = status]
          IN  IF Role(userId) = "ADMIN" /\ OrderExists(id) /\ status \in OrderStatus
                 /\ status \notin validTransitions[orders[id].status]
              THEN /\ req' = [req EXCEPT ![p] =
                                 Respond(r, 400, "INVALID_STATUS_TRANSITION", NoOrder)]
                   /\ orders' = [orders EXCEPT ![id].status = status]
              ELSE /\ req' = [req EXCEPT ![p] =
                                 IF Role(userId) # "ADMIN"
                                 THEN Respond(r, 403, "ADMIN_REQUIRED", NoOrder)
                                 ELSE IF ~OrderExists(id)
                                 THEN Respond(r, 404, "ORDER_NOT_FOUND", NoOrder)
                                 ELSE IF status \notin validTransitions[orders[id].status]
                                 THEN Respond(r, 400, "INVALID_STATUS_TRANSITION", NoOrder)
                                 ELSE [r EXCEPT !.order = orders[id], !.pc = "tx"]]
                   /\ orders' = orders
    /\ UNCHANGED <<products, orderItems, notifications>>

\* variant: the owner of the order passes the role check too
UpdateOrderStatusOwnerAllowed(p) ==
    /\ Free(p)
    /\ \E userId \in Users, id \in OrderIdInputs, status \in StatusInputs :
          LET r == [Idle EXCEPT !.op = "updateOrderStatus", !.userId = userId,
                                !.id = id, !.status = status]
          IN  req' = [req EXCEPT ![p] =
                         IF Role(userId) # "ADMIN"
                            /\ ~(OrderExists(id) /\ orders[id].userId = userId)
                         THEN Respond(r, 403, "ADMIN_REQUIRED", NoOrder)
                         ELSE IF ~OrderExists(id)
                         THEN Respond(r, 404, "ORDER_NOT_FOUND", NoOrder)
                         ELSE IF status \notin validTransitions[orders[id].status]
                         THEN Respond(r, 400, "INVALID_STATUS_TRANSITION", NoOrder)
                         ELSE [r EXCEPT !.order = orders[id], !.pc = "tx"]]
    /\ UNCHANGED db

\* the role check of the route, then the order is loaded and the requested
\* transition is validated
UpdateOrderStatus(p) ==
    /\ Free(p)
    /\ \E userId \in Users, id \in OrderIdInputs, status \in StatusInputs :
          LET r == [Idle EXCEPT !.op = "updateOrderStatus", !.userId = userId,
                                !.id = id, !.status = status]
          IN  req' = [req EXCEPT ![p] =
                         IF Role(userId) # "ADMIN"
                         THEN Respond(r, 403, "ADMIN_REQUIRED", NoOrder)
                         ELSE IF ~OrderExists(id)
                         THEN Respond(r, 404, "ORDER_NOT_FOUND", NoOrder)
                         ELSE IF status \notin validTransitions[orders[id].status]
                         THEN Respond(r, 400, "INVALID_STATUS_TRANSITION", NoOrder)
                         ELSE [r EXCEPT !.order = orders[id], !.pc = "tx"]]
    /\ UNCHANGED db

\* variant: the notification goes to the user who made the request
UpdateOrderStatusTxNotifyCaller(p) ==
    /\ req[p].op = "updateOrderStatus"
    /\ req[p].pc = "tx"
    /\ LET r       == req[p]
           updated == [orders[r.id] EXCEPT !.status = r.status]
       IN  /\ orders' = [orders EXCEPT ![r.id] = updated]
           /\ notifications' = Append(notifications,
                 Notification(r.userId, "Estado del pedido actualizado",
                    <<"Pedido #", r.id, ": ", statusMessages[r.status]>>, r.id))
           /\ req' = [req EXCEPT ![p] =
                         Respond([r EXCEPT !.writes = @ + 1], 200, "SUCCESS", updated)]
    /\ UNCHANGED <<products, orderItems>>

\* variant: the status is written only while the order still has the status
\* that was read (update ... where status = order.status)
UpdateOrderStatusTxConditional(p) ==
    /\ req[p].op = "updateOrderStatus"
    /\ req[p].pc = "tx"
    /\ LET r       == req[p]
           updated == [orders[r.id] EXCEPT !.status = r.status]
       IN  IF orders[r.id].status = r.order.status
           THEN /\ orders' = [orders EXCEPT ![r.id] = updated]
                /\ notifications' = Append(notifications,
                      Notification(r.order.userId, "Estado del pedido actualizado",
                         <<"Pedido #", r.id, ": ", statusMessages[r.status]>>, r.id))
                /\ req' = [req EXCEPT ![p] =
                              Respond([r EXCEPT !.writes = @ + 1], 200, "SUCCESS", updated)]
           ELSE /\ req' = [req EXCEPT ![p] =
                              Respond(r, 500, "ORDER_STATUS_UPDATE_ERROR", NoOrder)]
                /\ UNCHANGED <<orders, notifications>>
    /\ UNCHANGED <<products, orderItems>>

\* prisma.$transaction: status write, notification row for the order's user
UpdateOrderStatusTx(p) ==
    /\ req[p].op = "updateOrderStatus"
    /\ req[p].pc = "tx"
    /\ LET r       == req[p]
           updated == [orders[r.id] EXCEPT !.status = r.status]
       IN  /\ orders' = [orders EXCEPT ![r.id] = updated]
           /\ notifications' = Append(notifications,
                 Notification(r.order.userId, "Estado del pedido actualizado",
                    <<"Pedido #", r.id, ": ", statusMessages[r.status]>>, r.id))
           /\ req' = [req EXCEPT ![p] =
                         Respond([r EXCEPT !.writes = @ + 1], 200, "SUCCESS", updated)]
    /\ UNCHANGED <<products, orderItems>>

(***************************************************************************)
(* The store refuses a transaction                                         *)
(***************************************************************************)
\* prisma.$transaction throws (connection lost, deadlock, timeout): what the
\* transaction wrote is rolled back and the catch block answers
CreateOrderTxFails(p) ==
    /\ req[p].op = "createOrder"
    /\ req[p].pc = "tx"
    /\ req' = [req EXCEPT ![p] = Respond(req[p], 500, "ORDER_CREATE_ERROR", NoOrder)]
    /\ UNCHANGED db

CancelOrderTxFails(p) ==
    /\ req[p].op = "cancelOrder"
    /\ req[p].pc = "tx"
    /\ req' = [req EXCEPT ![p] = Respond(req[p], 500, "ORDER_CANCEL_ERROR", NoOrder)]
    /\ UNCHANGED db

\* variant: the status write is not rolled back
UpdateOrderStatusTxFailsAfterStatusWrite(p) ==
    /\ req[p].op = "updateOrderStatus"
    /\ req[p].pc = "tx"
    /\ orders' = [orders EXCEPT ![req[p].id].status = req[p].status]
    /\ req' = [req EXCEPT ![p] =
                  Respond(req[p], 500, "ORDER_STATUS_UPDATE_ERROR", NoOrder)]
    /\ UNCHANGED <<products, orderItems, notifications>>

UpdateOrderStatusTxFails(p) ==
    /\ req[p].op = "updateOrderStatus"
    /\ req[p].pc = "tx"
    /\ req' = [req EXCEPT ![p] =
                  Respond(req[p], 500, "ORDER_STATUS_UPDATE_ERROR", NoOrder)]
    /\ UNCHANGED db

(***************************************************************************)
(* requireAdmin, ProductController.updateProduct and deleteProduct         *)
(***************************************************************************)
\* parseFloat(price) stored in a Decimal(8,2) column, in cents
StoredPrice(cents) == DecimalOfNumber(NumberOfCents(cents))

\* the product is loaded
UpdateProduct(p) ==
    /\ Free(p)
    /\ \E userId \in Users, id \in ProductIds, body \in ProductBodies :
          LET r == [Idle EXCEPT !.op = "updateProduct", !.userId = userId, !.id = id]
          IN  req' = [req EXCEPT ![p] =
                         IF Role(userId) # "ADMIN"
                         THEN Respond(r, 403, "ADMIN_REQUIRED", NoOrder)
                         ELSE IF ~products[id].exists
                         THEN Respond(r, 404, "PRODUCT_NOT_FOUND", NoOrder)
                         ELSE [r EXCEPT !.updateData = body, !.pc = "tx"]]
    /\ UNCHANGED db

\* variant: the new price is written to the lines that name the product too
UpdateProductWriteRepricingLines(p) ==
    /\ req[p].op = "updateProduct"
    /\ req[p].pc = "tx"
    /\ LET r    == req[p]
           data == r.updateData
           row  == products[r.id]
           updated ==
               [row EXCEPT
                  !.price = IF "price" \in DOMAIN data
                            THEN StoredPrice(data.price) ELSE @,
                  !.isAvailable = IF "isAvailable" \in DOMAIN data
                                  THEN data.isAvailable ELSE @]
       IN  IF row.exists
           THEN /\ products' = [products EXCEPT ![r.id] = updated]
                /\ orderItems' = [i \in 1..Len(orderItems) |->
                       IF orderItems[i].productId = r.id
                       THEN [orderItems[i] EXCEPT
                               !.unitPrice = updated.price,
                               !.subtotal = updated.price * orderItems[i].quantity]
                       ELSE orderItems[i]]
                /\ req' = [req EXCEPT ![p] =
                              Respond([r EXCEPT !.writes = @ + 1, !.updateData = <<>>],
                                      200, "SUCCESS", NoOrder)]
           ELSE /\ req' = [req EXCEPT ![p] =
                              Respond([r EXCEPT !.updateData = <<>>],
                                      500, "PRODUCT_UPDATE_ERROR", NoOrder)]
                /\ UNCHANGED <<products, orderItems>>
    /\ UNCHANGED <<orders, notifications>>

\* prisma.product.update with the fields the body carried
UpdateProductWrite(p) ==
    /\ req[p].op = "updateProduct"
    /\ req[p].pc = "tx"
    /\ LET r    == req[p]
           data == r.updateData
           row  == products[r.id]
           updated ==
               [row EXCEPT
                  !.price = IF "price" \in DOMAIN data
                            THEN StoredPrice(data.price) ELSE @,
                  !.isAvailable = IF "isAvailable" \in DOMAIN data
                                  THEN data.isAvailable ELSE @]
       IN  IF row.exists
           THEN /\ products' = [products EXCEPT ![r.id] = updated]
                /\ req' = [req EXCEPT ![p] =
                              Respond([r EXCEPT !.writes = @ + 1, !.updateData = <<>>],
                                      200, "SUCCESS", NoOrder)]
           ELSE /\ req' = [req EXCEPT ![p] =
                              Respond([r EXCEPT !.updateData = <<>>],
                                      500, "PRODUCT_UPDATE_ERROR", NoOrder)]
                /\ UNCHANGED products
    /\ UNCHANGED <<orders, orderItems, notifications>>

\* the product is loaded
DeleteProduct(p) ==
    /\ Free(p)
    /\ \E userId \in Users, id \in ProductIds :
          LET r == [Idle EXCEPT !.op = "deleteProduct", !.userId = userId, !.id = id]
          IN  req' = [req EXCEPT ![p] =
                         IF Role(userId) # "ADMIN"
                         THEN Respond(r, 403, "ADMIN_REQUIRED", NoOrder)
                         ELSE IF ~products[id].exists
                         THEN Respond(r, 404, "PRODUCT_NOT_FOUND", NoOrder)
                         ELSE [r EXCEPT !.pc = "check"]]
    /\ UNCHANGED db

\* prisma.orderItem.findFirst({where: {productId}})
DeleteProductCheck(p) ==
    /\ req[p].op = "deleteProduct"
    /\ req[p].pc = "check"
    /\ LET hasOrders == \E i \in 1..Len(orderItems) : orderItems[i].productId = req[p].id
       IN  req' = [req EXCEPT ![p].pc = IF hasOrders THEN "hide" ELSE "delete"]
    /\ UNCHANGED db

\* variant: order_items has no foreign key to products
DeleteProductWriteWithoutForeignKey(p) ==
    /\ req[p].op = "deleteProduct"
    /\ req[p].pc \in {"hide", "delete"}
    /\ LET r   == req[p]
           row == products[r.id]
           done == Respond([r EXCEPT !.writes = @ + 1], 200, "SUCCESS", NoOrder)
       IN  IF ~row.exists
           THEN /\ req' = [req EXCEPT ![p] =
                              Respond(r, 500, "PRODUCT_DELETE_ERROR", NoOrder)]
                /\ UNCHANGED products
           ELSE /\ products' = [products EXCEPT ![r.id] =
                                    IF r.pc = "hide"
                                    THEN [row EXCEPT !.isAvailable = FALSE]
                                    ELSE NoProduct]
                /\ req' = [req EXCEPT ![p] = done]
    /\ UNCHANGED <<orders, orderItems, notifications>>

\* a product with order lines is marked unavailable, any other is deleted;
\* the foreign key of order_items refuses to delete a product that has lines
DeleteProductWrite(p) ==
    /\ req[p].op = "deleteProduct"
    /\ req[p].pc \in {"hide", "delete"}
    /\ LET r   == req[p]
           row == products[r.id]
           referenced == \E i \in 1..Len(orderItems) : orderItems[i].productId = r.id
           done == Respond([r EXCEPT !.writes = @ + 1], 200, "SUCCESS", NoOrder)
       IN  IF ~row.exists \/ (r.pc = "delete" /\ referenced)
           THEN /\ req' = [req EXCEPT ![p] =
                              Respond(r, 500, "PRODUCT_DELETE_ERROR", NoOrder)]
                /\ UNCHANGED products
           ELSE /\ products' = [products EXCEPT ![r.id] =
                                    IF r.pc = "hide"
                                    THEN [row EXCEPT !.isAvailable = FALSE]
                                    ELSE NoProduct]
                /\ req' = [req EXCEPT ![p] = done]
    /\ UNCHANGED <<orders, orderItems, notifications>>

(***************************************************************************)
(* OrderController.getOrderById and OrderController.getUserOrders          *)
(***************************************************************************)
\* req.query.status of getUserOrders
StatusFilters == {"undefined", "PENDING", "CANCELLED"}

\* prisma.order.findMany({where, orderBy: {createdAt: "desc"}}): the ids of
\* the rows of one user, newest first
RECURSIVE findMany(_, _, _)
findMany(userId, status, n) ==
    IF n = 0 THEN <<>>
    ELSE IF orders[n].userId = userId /\ (status = "undefined" \/ orders[n].status = status)
         THEN <<[id |-> n, order |-> orders[n]]>> \o findMany(userId, status, n - 1)
         ELSE findMany(userId, status, n - 1)

GetOrderByIdWithoutOwnerFilter(p) ==
    /\ Free(p)
    /\ \E userId \in Users, id \in OrderIdInputs :
          LET r == [req[p] EXCEPT !.op = "getOrderById", !.userId = userId, !.id = id]
          IN  req' = [req EXCEPT ![p] =
                 IF ~OrderExists(id)
                 THEN Respond(r, 404, "ORDER_NOT_FOUND", NoOrder)
                 ELSE Respond(r, 200, "SUCCESS", orders[id])]
    /\ UNCHANGED db

\* variant: another user's order is refused, a missing one is not found
GetOrderByIdDenyingOthers(p) ==
    /\ Free(p)
    /\ \E userId \in Users, id \in OrderIdInputs :
          LET r == [req[p] EXCEPT !.op = "getOrderById", !.userId = userId, !.id = id]
          IN  req' = [req EXCEPT ![p] =
                 IF ~OrderExists(id)
                 THEN Respond(r, 404, "ORDER_NOT_FOUND", NoOrder)
                 ELSE IF Role(userId) # "ADMIN" /\ orders[id].userId # userId
                 THEN Respond(r, 403, "ORDER_ACCESS_DENIED", NoOrder)
                 ELSE Respond(r, 200, "SUCCESS", orders[id])]
    /\ UNCHANGED db

\* GET /api/orders/:id
GetOrderById(p) ==
    /\ Free(p)
    /\ \E userId \in Users, id \in OrderIdInputs :
          LET r == [req[p] EXCEPT !.op = "getOrderById", !.userId = userId, !.id = id]
              \* where {id}, and {id, userId} for a caller who is not ADMIN
              found == /\ OrderExists(id)
                       /\ Role(userId) # "ADMIN" => orders[id].userId = userId
          IN  req' = [req EXCEPT ![p] =
                 IF ~found
                 THEN Respond(r, 404, "ORDER_NOT_FOUND", NoOrder)
                 ELSE Respond(r, 200, "SUCCESS", orders[id])]
    /\ UNCHANGED db

\* GET /api/orders/my-orders
GetUserOrders(p) ==
    /\ Free(p)
    /\ \E userId \in Users, status \in StatusFilters :
          LET r == [req[p] EXCEPT !.op = "getUserOrders", !.userId = userId,
                                  !.status = status]
          IN  req' = [req EXCEPT ![p] =
                         RespondList(r, findMany(userId, status, Len(orders)))]
    /\ UNCHANGED db

(***************************************************************************)
(* Specification                                                           *)
(***************************************************************************)
\* the response has been sent; the handler is ready for the next request
Return(p) ==
    /\ req[p].pc = "done"
    /\ req' = [req EXCEPT ![p] = Idle]
    /\ UNCHANGED db

CreateStep(p, bodies) ==
    \/ CreateOrder(p, bodies)
    \/ CreateOrderLookup(p)
    \/ CreateOrderTx(p)
    \/ CreateOrderFetch(p)

StatusStep(p) ==
    \/ CancelOrder(p)
    \/ CancelOrderTx(p)
    \/ UpdateOrderStatus(p)
    \/ UpdateOrderStatusTx(p)

Step(p, bodies) == CreateStep(p, bodies) \/ StatusStep(p) \/ Return(p)

\* the order workflow, one request at a time
Next == Step(1, Bodies(WorkflowItemLists))

Spec == Init /\ [][Next]_vars

\* the order workflow with concurrent handlers
ConcurrentNext == \E p \in Procs : Step(p, Bodies(WorkflowItemLists))

ConcurrentSpec == Init /\ [][ConcurrentNext]_vars

TxFails(p) ==
    \/ CreateOrderTxFails(p)
    \/ CancelOrderTxFails(p)
    \/ UpdateOrderStatusTxFails(p)

ProductStep(p) ==
    \/ UpdateProduct(p)
    \/ UpdateProductWrite(p)
    \/ DeleteProduct(p)
    \/ DeleteProductCheck(p)
    \/ DeleteProductWrite(p)
    \/ Return(p)

\* the order workflow on a store that may refuse a transaction
FaultNext == Step(1, Bodies(WorkflowItemLists)) \/ TxFails(1)

FaultSpec == Init /\ [][FaultNext]_vars

\* a user who creates and cancels orders on a store that may refuse a
\* transaction, next to an administrator who changes the catalog
CatalogNext ==
    \/ CreateStep(1, Bodies(WorkflowItemLists))
    \/ CreateOrderTxFails(1)
    \/ CancelOrder(1)
    \/ CancelOrderTx(1)
    \/ CancelOrderTxFails(1)
    \/ Return(1)
    \/ ProductStep(2)

CatalogSpec == Init /\ [][CatalogNext]_vars

\* every operation: the order workflow on a store that may refuse a
\* transaction, next to an administrator who changes the catalog
ProgramNext == Step(1, Bodies(WorkflowItemLists)) \/ TxFails(1) \/ ProductStep(2)

ProgramSpec == Init /\ [][ProgramNext]_vars

ReadStep(p) == GetOrderById(p) \/ GetUserOrders(p)

\* the order workflow and the read operations, one request at a time
ReadNext == Step(1, Bodies(WorkflowItemLists)) \/ ReadStep(1)

ReadSpec == Init /\ [][ReadNext]_vars

\* concurrent handlers that serve order creations only
SubmitNext ==
    \E p \in Procs :
        \/ CreateOrderWithin(p, Bodies(SubmitItemLists), MaxSubmissions)
        \/ CreateOrderLookup(p)
        \/ CreateOrderTx(p)
        \/ CreateOrderFetch(p)
        \/ Return(p)

SubmitSpec == Init /\ [][SubmitNext]_vars

\* a user who creates orders next to an administrator who updates products
PriceRaceNext ==
    \/ CreateStep(1, Bodies(SubmitItemLists))
    \/ Return(1)
    \/ UpdateProduct(2)
    \/ UpdateProductWrite(2)
    \/ Return(2)

PriceRaceSpec == Init /\ [][PriceRaceNext]_vars

\* order creation over request bodies of any shape, one request at a time
ShapeNext == CreateStep(1, AnyBodies(WorkflowItemLists)) \/ Return(1)

ShapeSpec == Init /\ [][ShapeNext]_vars

\* order creation over all requests, one request at a time
PricingNext == CreateStep(1, Bodies(ItemLists)) \/ Return(1)

PricingSpec == Init /\ [][PricingNext]_vars

(***************************************************************************)
(* Properties of the status workflow                                       *)
(***************************************************************************)
\* the table of legal transitions
TransitionTable ==
    { <<"PENDING", "PREPARING">>, <<"PENDING", "CANCELLED">>,
      <<"PREPARING", "READY">>,   <<"PREPARING", "CANCELLED">>,
      <<"READY", "DELIVERED">>,   <<"READY", "CANCELLED">> }

Terminal == {"DELIVERED", "CANCELLED"}

\* handler p takes up a request for operation op in this step
Begins(p, op) == req[p].pc = "idle" /\ req'[p].op = op

\* handler p, serving op, commits its transaction in this step
Commits(p, op) == req[p].op = op /\ req[p].pc = "tx" /\ req'[p] # req[p]

\* handler p answers in this step
Answers(p) == req[p].pc # "done" /\ req'[p].pc = "done"

StoreUnchanged ==
    /\ orders' = orders
    /\ orderItems' = orderItems
    /\ notifications' = notifications

\* an administrator's updateOrderStatus request reaches an existing order
AdminUpdateBegins(p) ==
    /\ Begins(p, "updateOrderStatus")
    /\ Role(req'[p].userId) = "ADMIN"
    /\ OrderExists(req'[p].id)

\* C1: updateOrderStatus by an administrator on an existing order succeeds
\* exactly when (status of the order, requested status) is in the transition
\* table, and with the success the stored status is the requested one.
C1_SucceedsIffInTable ==
    [][\A p \in Procs :
          /\ AdminUpdateBegins(p) =>
                /\ (req'[p].pc = "tx") <=>
                      (<<orders[req'[p].id].status, req'[p].status>> \in TransitionTable)
                /\ (req'[p].pc = "done") => (req'[p].res.code # "SUCCESS")
          /\ Commits(p, "updateOrderStatus") =>
                /\ Answers(p)
                /\ req'[p].res.http = 200
                /\ req'[p].res.code = "SUCCESS"
                /\ orders'[req[p].id].status = req[p].status]_vars

C1_Witness ==
    \E p \in Procs :
        /\ req[p].op = "updateOrderStatus"
        /\ req[p].pc = "done"
        /\ req[p].res.code = "SUCCESS"
        /\ req[p].status = "DELIVERED"
        /\ orders[req[p].id].status = "DELIVERED"

\* C2: a requested pair outside the table (the current status itself, PENDING,
\* a value outside the enum included) is answered INVALID_STATUS_TRANSITION
\* and the order, its lines and the notifications stay as they were.
C2_InvalidTransitionNoMutation ==
    [][\A p \in Procs :
          (AdminUpdateBegins(p)
             /\ <<orders[req'[p].id].status, req'[p].status>> \notin TransitionTable)
          => /\ Answers(p)
             /\ req'[p].res.http = 400
             /\ req'[p].res.code = "INVALID_STATUS_TRANSITION"
             /\ req'[p].writes = 0
             /\ StoreUnchanged]_vars

C2_Witness ==
    \E p \in Procs :
        /\ req[p].op = "updateOrderStatus"
        /\ req[p].pc = "done"
        /\ req[p].res.code = "INVALID_STATUS_TRANSITION"
        /\ req[p].status = orders[req[p].id].status
        /\ req[p].status = "PREPARING"

\* C3: an order whose stored status is DELIVERED or CANCELLED keeps that
\* status in every later state, whatever requests are served and however
\* they interleave.
C3_TerminalIsFinal ==
    [][\A id \in 1..Len(orders) :
          orders[id].status \in Terminal => orders'[id].status = orders[id].status]_vars

\* exactly one notification is added; it is for the owner of order id, of
\* type ORDER, names the order and carries message
NotifiesOwner(id, message) ==
    /\ Len(notifications') = Len(notifications) + 1
    /\ SubSeq(notifications', 1, Len(notifications)) = notifications
    /\ LET n == notifications'[Len(notifications')]
       IN  /\ n.userId = orders[id].userId
           /\ n.orderId = id
           /\ n.type = "ORDER"
           /\ n.message = message

\* the message keyed by the status an order moves to
KeyedMessage(id, status) == <<"Pedido #", id, ": ", statusMessages[status]>>

\* the message of a cancellation by the owner
CancelMessage(id) == <<"Tu pedido #", id, " ha sido cancelado exitosamente.">>

C5_CancelOnlyOwnPending ==
    [][\A p \in Procs :
          /\ (Begins(p, "cancelOrder") /\ OrderExists(req'[p].id)) =>
                LET owner   == orders[req'[p].id].userId = req'[p].userId
                    pending == orders[req'[p].id].status = "PENDING"
                IN  /\ (req'[p].pc = "tx") <=> (owner /\ pending)
                    /\ ~owner => /\ Answers(p)
                                 /\ req'[p].res.code = "ORDER_ACCESS_DENIED"
                    /\ (owner /\ ~pending) =>
                                 /\ Answers(p)
                                 /\ req'[p].res.code = "ORDER_CANNOT_BE_CANCELLED"
                    /\ Answers(p) => (StoreUnchanged /\ req'[p].writes = 0)
          /\ Commits(p, "cancelOrder") =>
                /\ Answers(p)
                /\ req'[p].res.code = "SUCCESS"
                /\ orders'[req[p].id].status = "CANCELLED"]_vars

\* someone else than the owner asked to cancel an order that is not PENDING
C5_Witness ==
    \E p \in Procs :
        /\ req[p].op = "cancelOrder"
        /\ req[p].pc = "done"
        /\ req[p].res.code = "ORDER_ACCESS_DENIED"
        /\ OrderExists(req[p].id)
        /\ orders[req[p].id].status = "PREPARING"

(***************************************************************************)
(* Properties of order creation                                            *)
(***************************************************************************)
\* the line names a product id the catalog does not have
Missing(item) == ~products[item.productId].exists

\* the line names a product that is not on sale
Unavailable(item) ==
    products[item.productId].exists /\ ~products[item.productId].isAvailable

Valid(item) == ~Missing(item) /\ ~Unavailable(item)

\* the first line of a request that is missing or unavailable
FirstInvalid(items) ==
    items[CHOOSE i \in 1..Len(items) :
             ~Valid(items[i]) /\ \A j \in 1..(i - 1) : Valid(items[j])]

\* the subtotal of a request in cents, computed over the integers
RECURSIVE SubtotalInCents(_)
SubtotalInCents(items) ==
    IF items = <<>> THEN 0
    ELSE products[Head(items).productId].price * QuantityOf(Head(items))
         + SubtotalInCents(Tail(items))

\* the persisted lines of an order
LinesOf(id) == SelectSeq(orderItems, LAMBDA row : row.orderId = id)

RECURSIVE SumOfSubtotals(_)
SumOfSubtotals(rows) ==
    IF rows = <<>> THEN 0 ELSE Head(rows).subtotal + SumOfSubtotals(Tail(rows))

\* handler p, serving createOrder, takes a step
CreateOrderStep(p) == req'[p] # req[p] /\ req'[p].op = "createOrder"

\* C6: every persisted order has, in cents: each line's subtotal equal to its
\* unit price times its quantity, the unit price being the catalog's price of
\* the product; the order's subtotal equal to the sum of its lines' subtotals;
\* a delivery fee of 1.00; and a total of subtotal + 1.00.
C6_TotalsExact ==
    \A id \in 1..Len(orders) :
        LET rows == LinesOf(id)
        IN  /\ \A i \in 1..Len(rows) :
                  /\ rows[i].unitPrice = products[rows[i].productId].price
                  /\ rows[i].subtotal = rows[i].unitPrice * rows[i].quantity
            /\ orders[id].subtotal = SumOfSubtotals(rows)
            /\ orders[id].deliveryFee = 100
            /\ orders[id].total = orders[id].subtotal + 100

\* an order of two lines was created, one of them 3 x 0.60 (a product that
\* is not a binary fraction), and was returned with 201
C6_Witness ==
    \E p \in Procs, id \in 1..Len(orders) :
        /\ req[p].op = "createOrder" /\ req[p].pc = "done"
        /\ req[p].res.http = 201 /\ req[p].newOrderId = id
        /\ Len(LinesOf(id)) = 2
        /\ \E i \in 1..2 : /\ LinesOf(id)[i].unitPrice = 60
                           /\ LinesOf(id)[i].quantity = 3
                           /\ LinesOf(id)[i].subtotal = 180
        /\ orders[id].total = orders[id].subtotal + 100

\* C7: a createOrder request whose lines all name existing, available
\* products is answered MINIMUM_ORDER_NOT_MET exactly when its subtotal is
\* below 2.00 (2.00 itself is accepted), and then it has written nothing.
C7_MinimumOrderIffBelowTwo ==
    \A p \in Procs :
        LET r == req[p]
        IN  (/\ r.op = "createOrder" /\ r.pc = "done"
             /\ Len(r.items) > 0
             /\ \A i \in 1..Len(r.items) : Valid(r.items[i]))
            => /\ (r.res.code = "MINIMUM_ORDER_NOT_MET") <=> (SubtotalInCents(r.items) < 200)
               /\ r.res.code = "MINIMUM_ORDER_NOT_MET" => r.writes = 0

\* C8 as stated: a createOrder request with a line that names a missing
\* product changes no table in any of its steps and is answered
\* PRODUCT_NOT_FOUND.
C8_MissingProductFails ==
    [][\A p \in Procs :
          (/\ CreateOrderStep(p)
           /\ \E i \in 1..Len(req'[p].items) : Missing(req'[p].items[i]))
          => /\ StoreUnchanged
             /\ Answers(p) => /\ req'[p].res.code = "PRODUCT_NOT_FOUND"
                              /\ req'[p].writes = 0]_vars

\* C8: a createOrder request with a line that names a missing product
\* changes no table in any of its steps; it is answered PRODUCT_NOT_FOUND,
\* unless an unavailable product comes before the first missing one, and then
\* PRODUCT_NOT_AVAILABLE.
C8_MissingProductAborts ==
    [][\A p \in Procs :
          (/\ CreateOrderStep(p)
           /\ \E i \in 1..Len(req'[p].items) : Missing(req'[p].items[i]))
          => /\ StoreUnchanged
             /\ Answers(p) => /\ req'[p].res.code =
                                    IF Missing(FirstInvalid(req'[p].items))
                                    THEN "PRODUCT_NOT_FOUND"
                                    ELSE "PRODUCT_NOT_AVAILABLE"
                              /\ req'[p].writes = 0]_vars

\* a request of two lines, the first valid and the second naming a missing
\* product, was answered PRODUCT_NOT_FOUND after both lookups, nothing stored
C8_Witness ==
    \E p \in Procs :
        /\ req[p].op = "createOrder" /\ req[p].pc = "done"
        /\ Len(req[p].items) = 2
        /\ Valid(req[p].items[1]) /\ Missing(req[p].items[2])
        /\ req[p].res.code = "PRODUCT_NOT_FOUND" /\ req[p].res.http = 404
        /\ req[p].lookups = 2 /\ req[p].writes = 0
        /\ orders = <<>> /\ orderItems = <<>> /\ notifications = <<>>

\* C9 as stated: a createOrder request with a line that names an unavailable
\* product changes no table in any of its steps and is answered
\* PRODUCT_NOT_AVAILABLE.
C9_UnavailableProductFails ==
    [][\A p \in Procs :
          (/\ CreateOrderStep(p)
           /\ \E i \in 1..Len(req'[p].items) : Unavailable(req'[p].items[i]))
          => /\ StoreUnchanged
             /\ Answers(p) => /\ req'[p].res.code = "PRODUCT_NOT_AVAILABLE"
                              /\ req'[p].writes = 0]_vars

\* C9: a createOrder request with a line that names an unavailable product
\* changes no table in any of its steps; it is answered
\* PRODUCT_NOT_AVAILABLE, unless a missing product comes before the first
\* unavailable one, and then PRODUCT_NOT_FOUND.
C9_UnavailableProductAborts ==
    [][\A p \in Procs :
          (/\ CreateOrderStep(p)
           /\ \E i \in 1..Len(req'[p].items) : Unavailable(req'[p].items[i]))
          => /\ StoreUnchanged
             /\ Answers(p) => /\ req'[p].res.code =
                                    IF Unavailable(FirstInvalid(req'[p].items))
                                    THEN "PRODUCT_NOT_AVAILABLE"
                                    ELSE "PRODUCT_NOT_FOUND"
                              /\ req'[p].writes = 0]_vars

\* a request of two lines, the first valid and the second naming an
\* unavailable product, was answered PRODUCT_NOT_AVAILABLE, nothing stored
C9_Witness ==
    \E p \in Procs :
        /\ req[p].op = "createOrder" /\ req[p].pc = "done"
        /\ Len(req[p].items) = 2
        /\ Valid(req[p].items[1]) /\ Unavailable(req[p].items[2])
        /\ req[p].res.code = "PRODUCT_NOT_AVAILABLE" /\ req[p].res.http = 400
        /\ req[p].lookups = 2 /\ req[p].writes = 0
        /\ orders = <<>> /\ orderItems = <<>> /\ notifications = <<>>

\* C10: a createOrder request whose items are absent or empty is answered
\* 400 NO_ITEMS_IN_ORDER in its first step, with no product looked up, no
\* write and no table changed.
C10_EmptyOrderRejectedFirst ==
    [][\A p \in Procs :
          (/\ Begins(p, "createOrder")
           /\ ~req'[p].hasItems \/ Len(req'[p].items) = 0)
          => /\ Answers(p)
             /\ req'[p].res.http = 400
             /\ req'[p].res.code = "NO_ITEMS_IN_ORDER"
             /\ req'[p].lookups = 0
             /\ req'[p].writes = 0
             /\ StoreUnchanged]_vars

\* a request without items was rejected while the store held an order
C10_Witness ==
    \E p \in Procs :
        /\ req[p].op = "createOrder" /\ req[p].pc = "done"
        /\ ~req[p].hasItems
        /\ req[p].res.code = "NO_ITEMS_IN_ORDER"
        /\ req[p].lookups = 0 /\ req[p].writes = 0
        /\ Len(orders) = 1 /\ Len(orderItems) > 0 /\ Len(notifications) = 1

(***************************************************************************)
(* Properties of the transactions                                          *)
(***************************************************************************)
\* the rows appended to a table in this step
Added(table) == SubSeq(table', Len(table) + 1, Len(table'))

\* the notification that confirms the creation of order id
Confirms(n, id) == n.title = "Pedido confirmado" /\ n.orderId = id

StatusChanged == {id \in 1..Len(orders) : orders'[id].status # orders[id].status}

\* the notifications of this step that tell of a status
StatusNotifications ==
    SelectSeq(Added(notifications), LAMBDA n : n.title # "Pedido confirmado")

C13_CreatedOrderReturnedPending ==
    \A p \in Procs :
        (req[p].op = "createOrder" /\ req[p].pc = "done" /\ req[p].res.http = 201)
        => /\ req[p].res.data.status = "PENDING"
           /\ req[p].res.data.userId = req[p].userId
           /\ orders[req[p].newOrderId].userId = req[p].userId
           /\ req[p].res.data.subtotal = orders[req[p].newOrderId].subtotal
           /\ req[p].res.data.total = orders[req[p].newOrderId].total

\* the request has no delivery location, no payment method, or a payment
\* method outside the enum
Malformed(r) ==
    r.deliveryLocation = "undefined" \/ r.paymentMethod \notin PaymentMethod

\* C14: a createOrder request that is malformed is answered in its first
\* step by the validation branch (400, no error code), with no product
\* looked up and nothing written.
C14_ShapeValidatedFirst ==
    \A p \in Procs :
        (req[p].op = "createOrder" /\ Malformed(req[p]))
        => /\ req[p].pc = "done"
           /\ req[p].res.http = 400
           /\ req[p].res.code = ""
           /\ req[p].lookups = 0
           /\ req[p].writes = 0

(***************************************************************************)
(* Properties of the read operations                                       *)
(***************************************************************************)
\* the orders a response carries, with their ids
Returned(r) ==
    IF r.op = "getOrderById" /\ r.res.code = "SUCCESS"
    THEN {[id |-> r.id, order |-> r.res.data]}
    ELSE {r.res.list[i] : i \in 1..Len(r.res.list)}

\* C15: getOrderById returns the order exactly when it exists and the
\* caller owns it or has role ADMIN, and answers ORDER_NOT_FOUND otherwise;
\* getUserOrders returns exactly the caller's own orders (those of the asked
\* status); a caller who is not ADMIN never receives another user's order.
C15_ReadsRestrictedToOwner ==
    \A p \in Procs :
        LET r == req[p] IN
        (r.pc = "done" /\ r.op \in {"getOrderById", "getUserOrders"}) =>
            /\ r.op = "getOrderById" =>
                  IF OrderExists(r.id)
                     /\ (orders[r.id].userId = r.userId \/ Role(r.userId) = "ADMIN")
                  THEN r.res.http = 200 /\ r.res.data = orders[r.id]
                  ELSE r.res.http = 404 /\ r.res.code = "ORDER_NOT_FOUND"
                       /\ r.res.data = NoOrder
            /\ r.op = "getUserOrders" =>
                  Returned(r) =
                      {[id |-> i, order |-> orders[i]] : i \in
                          {j \in 1..Len(orders) :
                              /\ orders[j].userId = r.userId
                              /\ r.status \in {"undefined", orders[j].status}}}
            /\ Role(r.userId) # "ADMIN" =>
                  \A o \in Returned(r) : o.order.userId = r.userId

\* a client asked for an administrator's order and was told it does not exist
C15_Witness ==
    \E p \in Procs :
        /\ req[p].pc = "done"
        /\ req[p].op = "getOrderById"
        /\ Role(req[p].userId) # "ADMIN"
        /\ OrderExists(req[p].id)
        /\ orders[req[p].id].userId # req[p].userId
        /\ req[p].res.code = "ORDER_NOT_FOUND"
(***************************************************************************)
(* Properties of the access to updateOrderStatus                           *)
(***************************************************************************)
\* C16: updateOrderStatus by a caller whose role is not ADMIN is answered
\* 403 ADMIN_REQUIRED whatever the id (existing, the caller's own, missing),
\* with no order loaded and the store as it was; by an ADMIN a pair of the
\* table is accepted on an existing order whoever owns it, and its commit
\* stores the requested status.
C16_AdminOnlyAnyOwner ==
    [][\A p \in Procs :
          /\ (Begins(p, "updateOrderStatus") /\ Role(req'[p].userId) # "ADMIN") =>
                /\ Answers(p)
                /\ req'[p].res.http = 403
                /\ req'[p].res.code = "ADMIN_REQUIRED"
                /\ req'[p].order = NoOrder
                /\ req'[p].writes = 0
                /\ StoreUnchanged
          /\ \A owner \in Users :
                (/\ AdminUpdateBegins(p)
                 /\ orders[req'[p].id].userId = owner
                 /\ <<orders[req'[p].id].status, req'[p].status>> \in TransitionTable)
                => req'[p].pc = "tx"
          /\ (Commits(p, "updateOrderStatus") /\ req'[p].res.http = 200) =>
                /\ Role(req[p].userId) = "ADMIN"
                /\ orders'[req[p].id].status = req[p].status
                /\ orders'[req[p].id].userId = orders[req[p].id].userId]_vars

\* the owner of a PENDING order, a client, asked to move it to PREPARING and
\* was refused
C16_Witness ==
    \E p \in Procs :
        /\ req[p].op = "updateOrderStatus"
        /\ req[p].pc = "done"
        /\ Role(req[p].userId) # "ADMIN"
        /\ OrderExists(req[p].id)
        /\ orders[req[p].id].userId = req[p].userId
        /\ orders[req[p].id].status = "PENDING"
        /\ req[p].status = "PREPARING"
        /\ req[p].res.code = "ADMIN_REQUIRED"
(***************************************************************************)
(* Properties of the catalog operations                                    *)
(***************************************************************************)
\* handler p, serving updateProduct or deleteProduct, takes a step
ProductHandlerStep(p) ==
    /\ req'[p] # req[p]
    /\ {req[p].op, req'[p].op} \cap {"updateProduct", "deleteProduct"} # {}

\* C17: no step of updateProduct or deleteProduct, and no step that changes
\* a product row, changes unitPrice or subtotal of a stored order line or
\* subtotal, deliveryFee or total of a stored order; no line is removed.
C17_SnapshotPricing ==
    [][((\E p \in Procs : ProductHandlerStep(p)) \/ products' # products) =>
          /\ Len(orderItems') = Len(orderItems)
          /\ \A i \in 1..Len(orderItems) :
                /\ orderItems'[i].unitPrice = orderItems[i].unitPrice
                /\ orderItems'[i].subtotal = orderItems[i].subtotal
                /\ orderItems'[i].quantity = orderItems[i].quantity
                /\ orderItems'[i].productId = orderItems[i].productId
          /\ Len(orders') = Len(orders)
          /\ \A id \in 1..Len(orders) :
                /\ orders'[id].subtotal = orders[id].subtotal
                /\ orders'[id].deliveryFee = orders[id].deliveryFee
                /\ orders'[id].total = orders[id].total]_vars

\* the price of a product was changed after an order with a line of that
\* product was stored; the line keeps the price of its creation
C17_Witness ==
    \E p \in Procs, i \in 1..Len(orderItems) :
        /\ req[p].op = "updateProduct"
        /\ req[p].pc = "done"
        /\ req[p].res.code = "SUCCESS"
        /\ req[p].id = orderItems[i].productId
        /\ products[req[p].id].price # orderItems[i].unitPrice
        /\ orderItems[i].subtotal = orderItems[i].unitPrice * orderItems[i].quantity
        /\ orders[orderItems[i].orderId].subtotal = SumOfSubtotals(LinesOf(orderItems[i].orderId))
(***************************************************************************)
(* Properties of the stored order lines                                    *)
(***************************************************************************)
\* C18: every stored order line has a quantity of at least 1: the requested
\* quantity, or 1 when the request names none.
C18_QuantityPositive ==
    \A i \in 1..Len(orderItems) : orderItems[i].quantity >= 1
(***************************************************************************)
(* Properties of the lifetime of an order                                  *)
(***************************************************************************)
\* C19: no step removes an order or an order line: every stored order stays
\* with its id, owner, totals and lines, and only its status may change; a
\* committed cancellation changes nothing of the order but its status, which
\* becomes CANCELLED.
C19_OrdersNeverDeleted ==
    [][/\ Len(orders') >= Len(orders)
       /\ \A id \in 1..Len(orders) :
             orders' [id] = [orders[id] EXCEPT !.status = orders'[id].status]
       /\ Len(orderItems') >= Len(orderItems)
       /\ SubSeq(orderItems', 1, Len(orderItems)) = orderItems
       /\ \A p \in Procs :
             (Commits(p, "cancelOrder") /\ req'[p].res.http = 200) =>
                /\ orders' = [orders EXCEPT ![req[p].id].status = "CANCELLED"]
                /\ orderItems' = orderItems]_vars

\* a cancelled order is still stored with its lines
C19_Witness ==
    \E p \in Procs :
        /\ req[p].op = "cancelOrder"
        /\ req[p].pc = "done"
        /\ req[p].res.code = "SUCCESS"
        /\ orders[req[p].id].status = "CANCELLED"
        /\ LinesOf(req[p].id) # <<>>
        /\ orders[req[p].id].subtotal = SumOfSubtotals(LinesOf(req[p].id))
(***************************************************************************)
(* Properties of requests for an order that does not exist                 *)
(***************************************************************************)
\* C20: cancelOrder, and updateOrderStatus by an administrator, on an id
\* that no stored order has are answered 404 ORDER_NOT_FOUND at once, with
\* no transaction opened: no order is added or changed and no notification
\* is written.
C20_MissingOrderNotFound ==
    [][\A p \in Procs :
          (/\ \/ Begins(p, "cancelOrder")
              \/ Begins(p, "updateOrderStatus") /\ Role(req'[p].userId) = "ADMIN"
           /\ ~OrderExists(req'[p].id))
          => /\ Answers(p)
             /\ req'[p].res.http = 404
             /\ req'[p].res.code = "ORDER_NOT_FOUND"
             /\ req'[p].writes = 0
             /\ Len(orders') = Len(orders)
             /\ StoreUnchanged]_vars

\* an order is stored, and a cancellation of the next id was answered
\* ORDER_NOT_FOUND
C20_Witness ==
    \E p \in Procs :
        /\ req[p].op = "cancelOrder"
        /\ req[p].pc = "done"
        /\ orders # <<>>
        /\ ~OrderExists(req[p].id)
        /\ req[p].res.code = "ORDER_NOT_FOUND"
        /\ req[p].res.http = 404
(***************************************************************************)
(* Properties of concurrent requests                                       *)
(***************************************************************************)
\* the status handler p wants to store
Target(r) == IF r.op = "cancelOrder" THEN "CANCELLED" ELSE r.status

\* C21: the transaction of updateOrderStatus and of cancelOrder writes the
\* requested status and reports success whatever status the order has by
\* then: the pair that was validated is (status read, requested status), and
\* the pair (stored status, requested status) need not be in the table.
C21_WriteNotConditionedOnRead ==
    [][\A p \in Procs :
          (Commits(p, "updateOrderStatus") \/ Commits(p, "cancelOrder")) =>
             /\ <<req[p].order.status, Target(req[p])>> \in TransitionTable
             /\ req'[p].res.http = 200
             /\ req'[p].res.code = "SUCCESS"
             /\ orders'[req[p].id].status = Target(req[p])
             /\ Len(notifications') = Len(notifications) + 1]_vars

\* two handlers read order id as PENDING; one stored CANCELLED and reported
\* success, the other is about to store PREPARING over it and will report
\* success as well
C21_Witness ==
    \E p, q \in Procs :
        /\ p # q
        /\ req[p].id = req[q].id
        /\ req[p].pc = "done"
        /\ req[p].op \in {"cancelOrder", "updateOrderStatus"}
        /\ Target(req[p]) = "CANCELLED"
        /\ req[p].res.code = "SUCCESS"
        /\ req[q].op = "updateOrderStatus"
        /\ req[q].pc = "tx"
        /\ req[q].order.status = "PENDING"
        /\ req[q].status = "PREPARING"
        /\ orders[req[q].id].status = "CANCELLED"
        /\ <<orders[req[q].id].status, req[q].status>> \notin TransitionTable
\* C22: a creation that has passed validation commits whatever other
\* creations are in flight or have committed, the same user's included: its
\* transaction adds one order with a new id, the request's lines under that
\* id and one confirmation notification for that id, and the request is
\* answered 201 with that order; no two requests get the same order id.
C22_ConcurrentCreationsIndependent ==
    [][\A p \in Procs :
          /\ (req[p].op = "createOrder" /\ req[p].pc = "tx" /\ req'[p] # req[p]) =>
                LET newId == Len(orders) + 1 IN
                /\ req'[p].pc = "fetch"
                /\ req'[p].newOrderId = newId
                /\ Len(orders') = newId
                /\ orders'[newId].userId = req[p].userId
                /\ orders'[newId].status = "PENDING"
                /\ Len(Added(orderItems)) = Len(req[p].items)
                /\ \A i \in 1..Len(req[p].items) :
                      /\ Added(orderItems)[i].orderId = newId
                      /\ Added(orderItems)[i].productId = req[p].items[i].productId
                /\ Len(Added(notifications)) = 1
                /\ Confirms(Added(notifications)[1], newId)
                /\ Added(notifications)[1].userId = req[p].userId
                /\ \A q \in Procs \ {p} : req[q].newOrderId # newId
          /\ (req[p].op = "createOrder" /\ req[p].pc = "fetch" /\ req'[p] # req[p]) =>
                /\ req'[p].res.http = 201
                /\ req'[p].res.data = orders[req[p].newOrderId]
                /\ LinesOf(req[p].newOrderId) # <<>>]_vars

\* two requests of one user with the same lines have both committed before
\* either was answered, and two orders are stored
C22_Witness ==
    \E p, q \in Procs :
        /\ req[p].op = "createOrder" /\ req[p].pc = "fetch"
        /\ req[q].op = "createOrder" /\ req[q].pc = "fetch"
        /\ req[p].userId = req[q].userId
        /\ req[p].items = req[q].items
        /\ req[p].newOrderId = 1
        /\ req[q].newOrderId = 2
        /\ Len(orders) = 2
        /\ LinesOf(1) # <<>> /\ LinesOf(2) # <<>>
        /\ Len(notifications) = 2
\* C23: the transaction of createOrder commits whatever updateProduct has
\* done to the products since the loop read them, and every line it stores
\* carries the unit price and the subtotal that the loop computed, not the
\* product's price at the commit; the product may be unavailable by then.
C23_LastPriceWins ==
    [][\A p \in Procs :
          (req[p].op = "createOrder" /\ req[p].pc = "tx" /\ req'[p] # req[p]) =>
             /\ req'[p].pc = "fetch"
             /\ Len(orders') = Len(orders) + 1
             /\ Len(Added(orderItems)) = Len(req[p].orderItems)
             /\ \A i \in 1..Len(req[p].orderItems) :
                   /\ Added(orderItems)[i].unitPrice =
                         DecimalOfNumber(req[p].orderItems[i].unitPrice)
                   /\ Added(orderItems)[i].subtotal =
                         DecimalOfNumber(req[p].orderItems[i].subtotal)
             /\ orders'[Len(orders')].subtotal = DecimalOfNumber(req[p].subtotal)]_vars

\* the loop has read a product at one price; before the commit updateProduct
\* has changed that price and made the product unavailable
C23_Witness ==
    \E p, q \in Procs :
        /\ req[p].op = "createOrder"
        /\ req[p].pc = "tx"
        /\ req[q].op = "updateProduct"
        /\ req[q].pc = "done"
        /\ req[q].res.code = "SUCCESS"
        /\ \E i \in 1..Len(req[p].orderItems) :
              /\ req[p].orderItems[i].productId = req[q].id
              /\ DecimalOfNumber(req[p].orderItems[i].unitPrice) # products[req[q].id].price
              /\ ~products[req[q].id].isAvailable
(***************************************************************************)
(* Properties of the two ways to cancel                                    *)
(***************************************************************************)
\* handler p commits a cancellation of a PENDING order in this step: the
\* owner's cancelOrder, or updateOrderStatus to CANCELLED
CancelsPending(p) ==
    /\ \/ Commits(p, "cancelOrder")
       \/ Commits(p, "updateOrderStatus") /\ req[p].status = "CANCELLED"
    /\ orders[req[p].id].status = "PENDING"

\* the store after the step is the store before it with order id CANCELLED
\* and the row n added to the notifications
CancelledWith(id, n) ==
    /\ orders' = [orders EXCEPT ![id].status = "CANCELLED"]
    /\ notifications' = Append(notifications, n)
    /\ orderItems' = orderItems
    /\ products' = products

FirstInvalidAt(items) ==
    CHOOSE i \in 1..Len(items) : ~Valid(items[i]) /\ \A j \in 1..(i - 1) : Valid(items[j])

\* C25: a createOrder request with an invalid line is answered for its
\* earliest invalid line (PRODUCT_NOT_FOUND if that product is missing,
\* PRODUCT_NOT_AVAILABLE if it is not on sale) right after that line is
\* looked up, whatever the later lines and the subtotal are; and
\* MINIMUM_ORDER_NOT_MET is answered only when every line is valid.
C25_FirstFailureInInputOrder ==
    \A p \in Procs :
        LET r == req[p] IN
        (r.op = "createOrder" /\ r.pc = "done" /\ Len(r.items) > 0) =>
            IF \E i \in 1..Len(r.items) : ~Valid(r.items[i])
            THEN /\ r.res.code = IF Missing(r.items[FirstInvalidAt(r.items)])
                                 THEN "PRODUCT_NOT_FOUND"
                                 ELSE "PRODUCT_NOT_AVAILABLE"
                 /\ r.lookups = FirstInvalidAt(r.items)
                 /\ r.writes = 0
            ELSE /\ r.res.code \in {"MINIMUM_ORDER_NOT_MET", "SUCCESS"}
                 /\ r.lookups = Len(r.items)

\* a request whose first line is below the minimum and whose second line
\* names a missing product was answered PRODUCT_NOT_FOUND
C25_Witness ==
    \E p \in Procs :
        /\ req[p].op = "createOrder"
        /\ req[p].pc = "done"
        /\ Len(req[p].items) = 2
        /\ Valid(req[p].items[1])
        /\ SubtotalInCents(<<req[p].items[1]>>) < 200
        /\ Missing(req[p].items[2])
        /\ req[p].lookups = 2
        /\ req[p].res.code = "PRODUCT_NOT_FOUND"
(***************************************************************************)
(* Properties of what a transition leaves alone                            *)
(***************************************************************************)
\* handler p, serving updateOrderStatus or cancelOrder, takes a step
StatusHandlerStep(p) ==
    /\ req'[p] # req[p]
    /\ {req[p].op, req'[p].op} \cap {"updateOrderStatus", "cancelOrder"} # {}

\* C26: a step of updateOrderStatus or cancelOrder, committed, refused or
\* failed, changes of a stored order at most the status: subtotal,
\* deliveryFee, total, owner, delivery location and payment method stay, the
\* order lines stay, and total = subtotal + deliveryFee holds after the step
\* as it held at creation.
C26_TransitionChangesStatusOnly ==
    [][(\E p \in Procs : StatusHandlerStep(p)) =>
          /\ Len(orders') = Len(orders)
          /\ orderItems' = orderItems
          /\ \A id \in 1..Len(orders) :
                /\ orders'[id].subtotal = orders[id].subtotal
                /\ orders'[id].deliveryFee = orders[id].deliveryFee
                /\ orders'[id].total = orders[id].total
                /\ orders'[id].userId = orders[id].userId
                /\ orders'[id].deliveryLocation = orders[id].deliveryLocation
                /\ orders'[id].paymentMethod = orders[id].paymentMethod
                /\ orders'[id].total = orders'[id].subtotal + orders'[id].deliveryFee
                /\ orders'[id].subtotal = SumOfSubtotals(LinesOf(id))]_vars

\* an order has gone through three transitions and has the lines and the
\* totals of its creation
C26_Witness ==
    \E id \in 1..Len(orders) :
        /\ orders[id].status = "DELIVERED"
        /\ Len(notifications) = 4
        /\ LinesOf(id) # <<>>
        /\ orders[id].subtotal = SumOfSubtotals(LinesOf(id))
        /\ orders[id].deliveryFee = 100
        /\ orders[id].total = orders[id].subtotal + 100
(***************************************************************************)
(* Properties of the life of an order                                      *)
(***************************************************************************)
\* how far a status is along the workflow
Rank(status) ==
    CASE status = "PENDING"   -> 0
      [] status = "PREPARING" -> 1
      [] status = "READY"     -> 2
      [] status = "DELIVERED" -> 3
      [] status = "CANCELLED" -> 4

\* the number of notifications in table that name order id
RECURSIVE NotificationsOf(_, _)
NotificationsOf(table, id) ==
    IF table = <<>> THEN 0
    ELSE (IF Head(table).orderId = id THEN 1 ELSE 0) + NotificationsOf(Tail(table), id)

\* C27: with requests handled one at a time, every change of the status of
\* an order is a pair of the transition table and moves the order forward,
\* so no status is entered twice and PENDING is never entered again; an
\* order has one notification for its creation and one per transition, at
\* most 3 transitions and at most 4 notifications.
C27_StatusHistoryIsPath ==
    [][\A id \in 1..Len(orders') :
          LET now   == orders'[id].status
              count == NotificationsOf(notifications', id)
          IN  /\ id \in 1..Len(orders) =>
                    \/ /\ now = orders[id].status
                       /\ count = NotificationsOf(notifications, id)
                    \/ /\ <<orders[id].status, now>> \in TransitionTable
                       /\ Rank(now) > Rank(orders[id].status)
                       /\ now # "PENDING"
                       /\ count = NotificationsOf(notifications, id) + 1
              /\ id \notin 1..Len(orders) => now = "PENDING" /\ count = 1
              /\ count - 1 <= 3
              /\ count <= 4
              /\ now # "CANCELLED" => count - 1 = Rank(now)
              /\ now = "CANCELLED" => count \in 2..4]_vars

\* an order has been prepared, made ready and then cancelled: three
\* transitions and four notifications
C27_Witness ==
    \E id \in 1..Len(orders) :
        /\ orders[id].status = "CANCELLED"
        /\ NotificationsOf(notifications, id) = 4
        /\ \E i \in 1..Len(notifications) :
              notifications[i].orderId = id
              /\ notifications[i].message = KeyedMessage(id, "READY")
(***************************************************************************)
(* Properties of what a refusal tells                                      *)
(***************************************************************************)
\* the answer of cancelOrder to a caller who does not own the order
AccessDenied ==
    [http |-> 403, code |-> "ORDER_ACCESS_DENIED", data |-> NoOrder, list |-> <<>>]

\* C28: cancelOrder on an existing order by a caller who is not its owner,
\* an administrator included, is answered at once with one and the same
\* response, ORDER_ACCESS_DENIED, whatever the status of the order, never
\* ORDER_CANNOT_BE_CANCELLED, and nothing is written.
C28_OwnershipBeforeStatus ==
    [][\A p \in Procs :
          (/\ Begins(p, "cancelOrder")
           /\ OrderExists(req'[p].id)
           /\ orders[req'[p].id].userId # req'[p].userId)
          => /\ Answers(p)
             /\ req'[p].res = AccessDenied
             /\ req'[p].res.code # "ORDER_CANNOT_BE_CANCELLED"
             /\ req'[p].order = NoOrder
             /\ StoreUnchanged]_vars

\* an administrator asked to cancel a client's delivered order through
\* cancelOrder and was denied access
C28_Witness ==
    \E p \in Procs :
        /\ req[p].op = "cancelOrder"
        /\ req[p].pc = "done"
        /\ OrderExists(req[p].id)
        /\ orders[req[p].id].userId # req[p].userId
        /\ orders[req[p].id].status = "DELIVERED"
        /\ req[p].res = AccessDenied
\* the answer of getOrderById when the query finds no row
NotFound ==
    [http |-> 404, code |-> "ORDER_NOT_FOUND", data |-> NoOrder, list |-> <<>>]

\* C29: to a caller who is not an administrator, getOrderById gives one and
\* the same response, ORDER_NOT_FOUND, for an id that no order has and for
\* the id of another user's order, whatever that order is: the response does
\* not tell whether the order exists.
C29_OthersOrderLooksMissing ==
    \A p \in Procs :
        LET r == req[p] IN
        (/\ r.op = "getOrderById" /\ r.pc = "done"
         /\ Role(r.userId) # "ADMIN"
         /\ ~OrderExists(r.id) \/ orders[r.id].userId # r.userId)
        => r.res = NotFound

\* a client asked for the id of an administrator's order that has moved on
\* from PENDING and got the answer of a missing order
C29_Witness ==
    \E p \in Procs :
        /\ req[p].op = "getOrderById"
        /\ req[p].pc = "done"
        /\ Role(req[p].userId) # "ADMIN"
        /\ OrderExists(req[p].id)
        /\ orders[req[p].id].userId # req[p].userId
        /\ orders[req[p].id].status # "PENDING"
        /\ req[p].res = NotFound
(***************************************************************************)
(* Properties of the products that order lines name                        *)
(***************************************************************************)
\* some stored order line names product id
Referenced(id) == \E i \in 1..Len(orderItems) : orderItems[i].productId = id

\* C30: every stored order line names a product that exists; a step removes
\* a product only when no stored line names it, and a step of deleteProduct
\* on a product that lines name changes at most its availability, to false.
C30_LinesNameExistingProducts ==
    [][/\ \A i \in 1..Len(orderItems') : products'[orderItems'[i].productId].exists
       /\ \A id \in ProductIds :
             /\ (products[id].exists /\ ~products'[id].exists) => ~Referenced(id)
             /\ (/\ Referenced(id)
                 /\ \E p \in Procs : req[p].op = "deleteProduct" /\ req'[p] # req[p])
                => \/ products'[id] = products[id]
                   \/ products'[id] = [products[id] EXCEPT !.isAvailable = FALSE]]_vars

\* deleteProduct found no line for the product, an order with a line for it
\* was committed, and the delete was then refused: the product is still there
C30_Witness ==
    \E p \in Procs :
        /\ req[p].op = "deleteProduct"
        /\ req[p].pc = "done"
        /\ req[p].res.code = "PRODUCT_DELETE_ERROR"
        /\ Referenced(req[p].id)
        /\ products[req[p].id].exists
        /\ products[req[p].id].isAvailable
====
